---- MODULE Spec2Model ----
(***************************************************************************)
(* COPAS CRM: Shopify order ingestion, Supabase record store and WhatsApp  *)
(* notification.  Model of api/index.py, api/whatsapp_service.py and        *)
(* api_backup/database.py.                                                  *)
(*                                                                          *)
(* The record store (Supabase REST) and the WhatsApp provider are outside   *)
(* the repository.  The store is modelled as three tables that answer every *)
(* request (row ids are the row's position in the table); the provider is   *)
(* modelled by the three ways its HTTP call can end.                        *)
(*                                                                          *)
(* A request handler advances through the calls it makes (pc); under Spec   *)
(* a request starts only when no other request is being handled.            *)
(***************************************************************************)
EXTENDS Integers, Sequences, FiniteSets, TLC

VARIABLES
    WEBHOOK_SECRET,   \* index.py:44, read once at start-up
    wa_configured,    \* whatsapp_service.py:14-15, PHONE_NUMBER_ID and ACCESS_TOKEN both set
    unique_orders,    \* the store enforces a unique shopify_order_id on "orders"
    customers,        \* store table "customers"
    orders,           \* store table "orders"
    whatsapp_logs,    \* store table "whatsapp_logs"
    clock,            \* value the next _now() returns
    pc,               \* position of each request handler
    local,            \* local variables of each request handler
    resp,             \* last HTTP response of each request handler
    wa_calls,         \* history: every send_order_confirmation invocation
    at_start,         \* history: the store and wa_calls when each handler's request arrived
    overlapped,       \* history: some ingestion arrived while another was being handled
    phone_edits,      \* characters added to the seed so far (PhoneSpec)
    phone_in,         \* input of normalize_phone (PhoneSpec)
    phone_out         \* result of normalize_phone (PhoneSpec)

storeVars == <<customers, orders, whatsapp_logs>>
phoneVars == <<phone_edits, phone_in, phone_out>>
confVars  == <<WEBHOOK_SECRET, wa_configured, unique_orders>>
vars == <<WEBHOOK_SECRET, wa_configured, unique_orders, customers, orders, whatsapp_logs,
          clock, pc, local, resp, wa_calls, at_start, overlapped,
          phone_edits, phone_in, phone_out>>

----------------------------------------------------------------------------
(* Bounds *)

MaxClock    == 7      \* last value of clock: at most MaxClock - 1 calls of _now()
MaxEdits    == 2      \* characters added to a seed phone string (PhoneSpec)

----------------------------------------------------------------------------
(* Python values *)

None == "None"

\* truth value of an Optional[str]: None and "" are falsy
Truthy(s) == s # None /\ s # ""

Procs == {1, 2}

Min(S) == CHOOSE x \in S : \A y \in S : x <= y

----------------------------------------------------------------------------
(* whatsapp_service.normalize_phone; a string is a sequence of characters *)

Digits == {"0", "1", "2", "3", "4", "5", "6", "7", "8", "9"}

COUNTRY_CODE == <<"5", "7">>
LOCAL_LEN == 10
MIN_PHONE_LEN == 10

RECURSIVE FilterChars(_, _)
FilterChars(s, keep) ==
    IF s = <<>> THEN <<>>
    ELSE (IF Head(s) \in keep THEN <<Head(s)>> ELSE <<>>) \o FilterChars(Tail(s), keep)

normalize_phone(phone) ==
    LET cleaned  == FilterChars(phone, Digits \cup {"+"})
        stripped == IF cleaned # <<>> /\ Head(cleaned) = "+" THEN Tail(cleaned) ELSE cleaned
    IN  IF Len(stripped) = LOCAL_LEN /\ Head(stripped) = "3"
        THEN COUNTRY_CODE \o stripped
        ELSE stripped

\* the characters of the phone strings that occur in payloads
Chars(s) ==
    CASE s = "3001234567"       -> <<"3","0","0","1","2","3","4","5","6","7">>
      [] s = "+57 300-123-4567" -> <<"+","5","7"," ","3","0","0","-","1","2","3","-","4","5","6","7">>
      [] s = "12 3"             -> <<"1","2"," ","3">>
      [] OTHER                  -> <<>>

----------------------------------------------------------------------------
(* Requests: inbound payloads and admin inputs *)

ShopifyIds == {"1001", "1002"}

order_number_of(sid) == IF sid = "1001" THEN "#1001" ELSE "#1002"

\* payload.customer; an absent block reads as None on every attribute (index.py:116-130)
NoCustomer == [first_name |-> None, last_name |-> None, email |-> None, phone |-> None]

\* payload.customer and payload.shipping_address (only its phone is read) with
\* payload.total_price: no phone at all, a local mobile number, the shipping
\* phone as fallback, a number too short to send to, and two empty phones
Contacts ==
    { [customer |-> NoCustomer,
       shipping_address |-> [phone |-> None], total_price |-> "50000"],
      [customer |-> [first_name |-> "Ana", last_name |-> None,
                     email |-> "ana@x.co", phone |-> "3001234567"],
       shipping_address |-> [phone |-> None], total_price |-> "50000"],
      [customer |-> [first_name |-> "Ana", last_name |-> "Ruiz",
                     email |-> "ana@x.co", phone |-> ""],
       shipping_address |-> [phone |-> "+57 300-123-4567"], total_price |-> "60000"],
      [customer |-> [first_name |-> None, last_name |-> "Ruiz",
                     email |-> "", phone |-> "12 3"],
       shipping_address |-> [phone |-> ""], total_price |-> "60000"],
      [customer |-> [first_name |-> None, last_name |-> None,
                     email |-> "ana@x.co", phone |-> ""],
       shipping_address |-> [phone |-> ""], total_price |-> "50000"] }

Payloads ==
    { [shopify_order_id |-> sid, customer |-> c.customer,
       shipping_address |-> c.shipping_address, total_price |-> c.total_price] :
      sid \in ShopifyIds, c \in Contacts }

NoPayload ==
    [shopify_order_id |-> None, customer |-> NoCustomer,
     shipping_address |-> [phone |-> None], total_price |-> None]

Tokens == {None, "s3cr3t", "wrong"}
Secrets == {"", "s3cr3t"}

\* order ids named by admin requests
OrderIds == 1 .. 2

valid_statuses == {"nuevo", "en_proceso", "enviado", "completado", "cancelado"}
StatusInputs == {"enviado", "shipped"}
NotesInputs == {None, "llamar"}

\* f"{first_name} {last_name}".strip() or "Cliente"   (index.py:120-122)
customer_name_of(c) ==
    LET first == IF Truthy(c.first_name) THEN c.first_name ELSE ""
        last  == IF Truthy(c.last_name) THEN c.last_name ELSE ""
    IN  CASE first = "" /\ last = "" -> "Cliente"
          [] first # "" /\ last = "" -> first
          [] first = "" /\ last # "" -> last
          [] OTHER                   -> "Ana Ruiz"

\* customer.phone first, then shipping_address.phone   (index.py:128-130)
customer_phone_of(payload) ==
    IF ~Truthy(payload.customer.phone)
    THEN payload.shipping_address.phone
    ELSE payload.customer.phone

\* verify_webhook_token comparing only a header that is present
verify_webhook_token_MissingOk(x_webhook_token) ==
    ~(WEBHOOK_SECRET # "" /\ x_webhook_token # None /\ x_webhook_token # WEBHOOK_SECRET)

\* index.py:73-81; TRUE when the request may proceed, FALSE when it is answered 401
verify_webhook_token(x_webhook_token) ==
    ~(WEBHOOK_SECRET # "" /\ x_webhook_token # WEBHOOK_SECRET)

----------------------------------------------------------------------------
(* database.py: operations on the store tables *)

\* rows of a table whose column col equals val (PostgREST filter col=eq.val)
RowsEq(tbl, col, val) == {i \in DOMAIN tbl : tbl[i][col] = val}

\* upsert_customer without the lookup by email
upsert_customer_AlwaysInsert(tbl, name, email, phone, now) ==
    [table |-> Append(tbl, [id |-> Len(tbl) + 1,
                            name |-> name,
                            email |-> IF Truthy(email) THEN email ELSE None,
                            phone |-> IF Truthy(phone) THEN phone ELSE None,
                            created_at |-> now,
                            updated_at |-> now]),
     id |-> Len(tbl) + 1]

\* database.upsert_customer: the table afterwards and the id of the returned record
upsert_customer(tbl, name, email, phone, now) ==
    LET found == IF Truthy(email) THEN RowsEq(tbl, "email", email) ELSE {}
    IN  IF found # {}
        THEN [table |-> [i \in DOMAIN tbl |->
                            IF i \in found
                            THEN [tbl[i] EXCEPT !.updated_at = now,
                                                !.name = IF Truthy(name) THEN name ELSE @,
                                                !.phone = IF Truthy(phone) THEN phone ELSE @]
                            ELSE tbl[i]],
              id |-> Min(found)]
        ELSE [table |-> Append(tbl, [id |-> Len(tbl) + 1,
                                     name |-> name,
                                     email |-> IF Truthy(email) THEN email ELSE None,
                                     phone |-> IF Truthy(phone) THEN phone ELSE None,
                                     created_at |-> now,
                                     updated_at |-> now]),
              id |-> Len(tbl) + 1]

\* upsert_order looking the id up in the wrong column
find_order_WrongColumn(tbl, shopify_id) == RowsEq(tbl, "order_number", shopify_id)

\* database.upsert_order, first request: the rows with this shopify_order_id
find_order(tbl, shopify_id) == RowsEq(tbl, "shopify_order_id", shopify_id)

\* the store refuses the POST of a second row with the same shopify_order_id
store_rejects_order(tbl, order_data) ==
    unique_orders /\ RowsEq(tbl, "shopify_order_id", order_data.shopify_order_id) # {}

\* database.upsert_order, second request: insert the row
insert_order(tbl, order_data, now) ==
    Append(tbl, [order_data EXCEPT !.id = Len(tbl) + 1,
                                   !.created_at = now,
                                   !.updated_at = now])

\* the order_data dict built by receive_shopify_order (index.py:144-161)
order_data_of(l) ==
    [id |-> 0,
     shopify_order_id |-> l.payload.shopify_order_id,
     order_number |-> order_number_of(l.payload.shopify_order_id),
     customer_id |-> l.customer_id,
     customer_name |-> l.customer_name,
     customer_email |-> l.customer_email,
     customer_phone |-> l.customer_phone,
     total_price |-> l.payload.total_price,
     status |-> "nuevo",
     notes |-> None,
     whatsapp_sent |-> FALSE,
     whatsapp_sent_at |-> 0,
     created_at |-> 0,
     updated_at |-> 0]

\* update_order_status also clearing the notification flag
update_order_status_ClearsSent(tbl, order_id, status, notes, now) ==
    [i \in DOMAIN tbl |->
        IF tbl[i].id = order_id
        THEN [tbl[i] EXCEPT !.status = status,
                            !.updated_at = now,
                            !.whatsapp_sent = FALSE,
                            !.notes = IF notes # None THEN notes ELSE @]
        ELSE tbl[i]]

\* database.update_order_status: PATCH orders?id=eq.order_id
update_order_status(tbl, order_id, status, notes, now) ==
    [i \in DOMAIN tbl |->
        IF tbl[i].id = order_id
        THEN [tbl[i] EXCEPT !.status = status,
                            !.updated_at = now,
                            !.notes = IF notes # None THEN notes ELSE @]
        ELSE tbl[i]]

\* mark_whatsapp_sent never taking the flag back
mark_order_Sticky(tbl, order_id, success, now) ==
    [i \in DOMAIN tbl |->
        IF tbl[i].id = order_id
        THEN [tbl[i] EXCEPT !.whatsapp_sent = (@ \/ success),
                            !.updated_at = now,
                            !.whatsapp_sent_at = IF success THEN now ELSE @]
        ELSE tbl[i]]

\* database.mark_whatsapp_sent, first request: PATCH orders?id=eq.order_id
mark_order(tbl, order_id, success, now) ==
    [i \in DOMAIN tbl |->
        IF tbl[i].id = order_id
        THEN [tbl[i] EXCEPT !.whatsapp_sent = success,
                            !.updated_at = now,
                            !.whatsapp_sent_at = IF success THEN now ELSE @]
        ELSE tbl[i]]

\* mark_whatsapp_sent keeping one log row per order
append_log_Overwrite(tbl, order_id, success, message_id, error, now) ==
    LET row == [order_id |-> order_id, success |-> success, message_id |-> message_id,
                error_message |-> error, sent_at |-> now]
    IN  IF RowsEq(tbl, "order_id", order_id) # {}
        THEN [i \in DOMAIN tbl |-> IF tbl[i].order_id = order_id THEN row ELSE tbl[i]]
        ELSE Append(tbl, row)

\* database.mark_whatsapp_sent, second request: POST whatsapp_logs
append_log(tbl, order_id, success, message_id, error, now) ==
    Append(tbl, [order_id |-> order_id, success |-> success, message_id |-> message_id,
                 error_message |-> error, sent_at |-> now])

----------------------------------------------------------------------------
(* whatsapp_service.send_order_confirmation *)

\* how the provider's HTTP call ends: 2xx, an error status, a transport exception
ProviderOutcomes == {"ok", "http_error", "exception"}

NoResult == [success |-> FALSE, message_id |-> None, error |-> None]

\* send_order_confirmation repeating the outbound call once after a failure
send_order_confirmation_Retry(phone, outcome) ==
    IF ~wa_configured
    THEN [result |-> [success |-> FALSE, message_id |-> None, error |-> "WhatsApp no configurado"],
          http |-> FALSE, posts |-> 0]
    ELSE IF Len(normalize_phone(Chars(phone))) < MIN_PHONE_LEN
    THEN [result |-> [success |-> FALSE, message_id |-> None, error |-> "Numero de telefono invalido"],
          http |-> FALSE, posts |-> 0]
    ELSE [result |-> CASE outcome = "ok" ->
                            [success |-> TRUE, message_id |-> "wamid.1", error |-> None]
                       [] outcome = "http_error" ->
                            [success |-> FALSE, message_id |-> None, error |-> "HTTP 400"]
                       [] OTHER ->
                            [success |-> FALSE, message_id |-> None, error |-> "timeout"],
          http |-> TRUE,
          posts |-> IF outcome = "ok" THEN 1 ELSE 2]

\* the returned dict, whether the outbound HTTP call was made, and the number
\* of client.post calls
send_order_confirmation(phone, outcome) ==
    IF ~wa_configured
    THEN [result |-> [success |-> FALSE, message_id |-> None, error |-> "WhatsApp no configurado"],
          http |-> FALSE, posts |-> 0]
    ELSE IF Len(normalize_phone(Chars(phone))) < MIN_PHONE_LEN
    THEN [result |-> [success |-> FALSE, message_id |-> None, error |-> "Numero de telefono invalido"],
          http |-> FALSE, posts |-> 0]
    ELSE [result |-> CASE outcome = "ok" ->
                            [success |-> TRUE, message_id |-> "wamid.1", error |-> None]
                       [] outcome = "http_error" ->
                            [success |-> FALSE, message_id |-> None, error |-> "HTTP 400"]
                       [] OTHER ->
                            [success |-> FALSE, message_id |-> None, error |-> "timeout"],
          http |-> TRUE, posts |-> 1]

----------------------------------------------------------------------------
(* Request handlers of index.py *)

NoLocal ==
    [kind |-> "none", token |-> None, payload |-> NoPayload,
     customer_name |-> None, customer_email |-> None, customer_phone |-> None,
     customer_id |-> 0, order_id |-> 0, status |-> None,
     result |-> NoResult]

NoResp ==
    [code |-> 0, message |-> None, order_id |-> 0,
     whatsapp_sent |-> FALSE, whatsapp_error |-> None]

Reply(code, message, order_id, sent, error) ==
    [code |-> code, message |-> message, order_id |-> order_id,
     whatsapp_sent |-> sent, whatsapp_error |-> error]

\* what a handler finds when its request arrives
Snapshot ==
    [customers |-> customers, orders |-> orders,
     whatsapp_logs |-> whatsapp_logs, wa_calls |-> wa_calls]

\* the handler slot that takes the next request
FreeSlot(p) ==
    /\ pc[p] = "idle"
    /\ \A q \in Procs : pc[q] = "idle" => p <= q

\* the calls of _now() a request may still make fit below MaxClock
Budget(k) == clock + k <= MaxClock

\* POST /webhook/shopify: token check, then the customer fields (index.py:101-130)
IngestStart(p, payload, x_webhook_token) ==
    /\ FreeSlot(p)
    /\ Budget(3)
    /\ at_start' = [at_start EXCEPT ![p] = Snapshot]
    /\ IF verify_webhook_token(x_webhook_token)
       THEN /\ local' = [local EXCEPT ![p] =
                   [NoLocal EXCEPT !.kind = "ingest",
                                   !.token = x_webhook_token,
                                   !.payload = payload,
                                   !.customer_name = customer_name_of(payload.customer),
                                   !.customer_email = payload.customer.email,
                                   !.customer_phone = customer_phone_of(payload)]]
            /\ pc' = [pc EXCEPT ![p] = "upsert_customer"]
            /\ resp' = [resp EXCEPT ![p] = NoResp]
       ELSE /\ local' = [local EXCEPT ![p] =
                   [NoLocal EXCEPT !.kind = "ingest", !.token = x_webhook_token]]
            /\ pc' = pc
            /\ resp' = [resp EXCEPT ![p] =
                   Reply(401, "Token de webhook invalido", 0, FALSE, None)]
    /\ overlapped' = (overlapped \/ \E q \in Procs : pc[q] # "idle")
    /\ UNCHANGED <<confVars, storeVars, clock, wa_calls, phoneVars>>

\* index.py:133-138
IngestCustomer(p) ==
    /\ pc[p] = "upsert_customer"
    /\ LET l == local[p]
           r == upsert_customer(customers, l.customer_name, l.customer_email,
                                l.customer_phone, clock)
       IN  /\ customers' = r.table
           /\ local' = [local EXCEPT ![p].customer_id = r.id]
    /\ clock' = clock + 1
    /\ pc' = [pc EXCEPT ![p] = "upsert_order"]
    /\ UNCHANGED <<confVars, orders, whatsapp_logs, resp, wa_calls, at_start, overlapped, phoneVars>>

\* upsert_order's lookup followed by the notification, the insert skipped
IngestFindOrder_NotifyFirst(p) ==
    /\ pc[p] = "upsert_order"
    /\ LET found == find_order(orders, local[p].payload.shopify_order_id)
       IN  IF found # {}
           THEN /\ local' = [local EXCEPT ![p].order_id = orders[Min(found)].id]
                /\ resp' = [resp EXCEPT ![p] =
                       Reply(200, "Pedido ya existente, sin cambios",
                             orders[Min(found)].id, FALSE, None)]
                /\ pc' = [pc EXCEPT ![p] = "idle"]
           ELSE /\ pc' = [pc EXCEPT ![p] = "notify"]
                /\ UNCHANGED <<local, resp>>
    /\ UNCHANGED <<confVars, storeVars, clock, wa_calls, at_start, overlapped, phoneVars>>

\* upsert_order without the idempotence check: the insert always follows
IngestFindOrder_NoCheck(p) ==
    /\ pc[p] = "upsert_order"
    /\ pc' = [pc EXCEPT ![p] = "insert_order"]
    /\ UNCHANGED <<local, resp>>
    /\ UNCHANGED <<confVars, storeVars, clock, wa_calls, at_start, overlapped, phoneVars>>

\* database.upsert_order:73-78 and the reply to a repeated order (index.py:164-174)
IngestFindOrder(p) ==
    /\ pc[p] = "upsert_order"
    /\ LET found == find_order(orders, local[p].payload.shopify_order_id)
       IN  IF found # {}
           THEN /\ local' = [local EXCEPT ![p].order_id = orders[Min(found)].id]
                /\ resp' = [resp EXCEPT ![p] =
                       Reply(200, "Pedido ya existente, sin cambios",
                             orders[Min(found)].id, FALSE, None)]
                /\ pc' = [pc EXCEPT ![p] = "idle"]
           ELSE /\ pc' = [pc EXCEPT ![p] = "insert_order"]
                /\ UNCHANGED <<local, resp>>
    /\ UNCHANGED <<confVars, storeVars, clock, wa_calls, at_start, overlapped, phoneVars>>

\* database.upsert_order:80-84; a refused POST answers with an error object, so
\* r.json()[0] raises and the request ends with 500
IngestInsertOrder(p) ==
    /\ pc[p] = "insert_order"
    /\ IF store_rejects_order(orders, order_data_of(local[p]))
       THEN /\ resp' = [resp EXCEPT ![p] = Reply(500, "Internal Server Error", 0, FALSE, None)]
            /\ pc' = [pc EXCEPT ![p] = "idle"]
            /\ UNCHANGED <<orders, local, clock>>
       ELSE /\ orders' = insert_order(orders, order_data_of(local[p]), clock)
            /\ local' = [local EXCEPT ![p].order_id = Len(orders) + 1]
            /\ clock' = clock + 1
            /\ pc' = [pc EXCEPT ![p] = "notify"]
            /\ resp' = resp
    /\ UNCHANGED <<confVars, customers, whatsapp_logs, wa_calls, at_start, overlapped, phoneVars>>

\* the notification step testing the phone against None only
IngestNotify_PhoneNotNone(p, outcome) ==
    /\ pc[p] = "notify"
    /\ local[p].kind = "ingest"
    /\ IF local[p].customer_phone # None
       THEN LET s == send_order_confirmation(local[p].customer_phone, outcome)
            IN  /\ local' = [local EXCEPT ![p].result = s.result]
                /\ wa_calls' = Append(wa_calls,
                       [order_id |-> local[p].order_id, kind |-> "ingest",
                        http |-> s.http, success |-> s.result.success,
                        phone |-> local[p].customer_phone, posts |-> s.posts,
                        result |-> s.result])
       ELSE /\ local' = [local EXCEPT ![p].result =
                   [success |-> FALSE, message_id |-> None, error |-> "Sin telefono"]]
            /\ wa_calls' = wa_calls
    /\ pc' = [pc EXCEPT ![p] = "mark"]
    /\ UNCHANGED <<confVars, storeVars, clock, resp, at_start, overlapped, phoneVars>>

\* index.py:176-193
IngestNotify(p, outcome) ==
    /\ pc[p] = "notify"
    /\ local[p].kind = "ingest"
    /\ IF Truthy(local[p].customer_phone)
       THEN LET s == send_order_confirmation(local[p].customer_phone, outcome)
            IN  /\ local' = [local EXCEPT ![p].result = s.result]
                /\ wa_calls' = Append(wa_calls,
                       [order_id |-> local[p].order_id, kind |-> "ingest",
                        http |-> s.http, success |-> s.result.success,
                        phone |-> local[p].customer_phone, posts |-> s.posts,
                        result |-> s.result])
       ELSE /\ local' = [local EXCEPT ![p].result =
                   [success |-> FALSE, message_id |-> None, error |-> "Sin telefono"]]
            /\ wa_calls' = wa_calls
    /\ pc' = [pc EXCEPT ![p] = "mark"]
    /\ UNCHANGED <<confVars, storeVars, clock, resp, at_start, overlapped, phoneVars>>

\* the recording step writing only successful notifications
IngestMark_OnlyOnSuccess(p) ==
    /\ pc[p] = "mark"
    /\ local[p].kind = "ingest"
    /\ LET l == local[p]
       IN  /\ IF l.order_id # 0 /\ l.result.success
              THEN /\ orders' = mark_order(orders, l.order_id, l.result.success, clock)
                   /\ whatsapp_logs' = append_log(whatsapp_logs, l.order_id, l.result.success,
                                                  l.result.message_id, l.result.error, clock)
                   /\ clock' = clock + 1
              ELSE UNCHANGED <<orders, whatsapp_logs, clock>>
           /\ resp' = [resp EXCEPT ![p] =
                  Reply(200, "ok", l.order_id, l.result.success,
                        IF l.result.success THEN None ELSE l.result.error)]
    /\ pc' = [pc EXCEPT ![p] = "idle"]
    /\ UNCHANGED <<confVars, customers, local, wa_calls, at_start, overlapped, phoneVars>>

\* index.py:195-210
IngestMark(p) ==
    /\ pc[p] = "mark"
    /\ local[p].kind = "ingest"
    /\ LET l == local[p]
       IN  /\ IF l.order_id # 0
              THEN /\ orders' = mark_order(orders, l.order_id, l.result.success, clock)
                   /\ whatsapp_logs' = append_log(whatsapp_logs, l.order_id, l.result.success,
                                                  l.result.message_id, l.result.error, clock)
                   /\ clock' = clock + 1
              ELSE UNCHANGED <<orders, whatsapp_logs, clock>>
           /\ resp' = [resp EXCEPT ![p] =
                  Reply(200, "ok", l.order_id, l.result.success,
                        IF l.result.success THEN None ELSE l.result.error)]
    /\ pc' = [pc EXCEPT ![p] = "idle"]
    /\ UNCHANGED <<confVars, customers, local, wa_calls, at_start, overlapped, phoneVars>>

\* update_status without the check against valid_statuses
UpdateStatus_NoValidation(p, order_id, status, notes) ==
    /\ FreeSlot(p)
    /\ Budget(1)
    /\ at_start' = [at_start EXCEPT ![p] = Snapshot]
    /\ local' = [local EXCEPT ![p] =
            [NoLocal EXCEPT !.kind = "status", !.order_id = order_id, !.status = status]]
    /\ orders' = update_order_status(orders, order_id, status, notes, clock)
    /\ clock' = clock + 1
    /\ resp' = [resp EXCEPT ![p] =
           IF RowsEq(orders, "id", order_id) = {}
           THEN Reply(404, "Pedido no encontrado", order_id, FALSE, None)
           ELSE Reply(200, "ok", order_id, FALSE, None)]
    /\ UNCHANGED <<confVars, customers, whatsapp_logs, pc, wa_calls, overlapped, phoneVars>>

\* PATCH /orders/{order_id}/status (index.py:234-246)
UpdateStatus(p, order_id, status, notes) ==
    /\ FreeSlot(p)
    /\ Budget(1)
    /\ at_start' = [at_start EXCEPT ![p] = Snapshot]
    /\ local' = [local EXCEPT ![p] =
            [NoLocal EXCEPT !.kind = "status", !.order_id = order_id, !.status = status]]
    /\ IF status \notin valid_statuses
       THEN /\ resp' = [resp EXCEPT ![p] = Reply(400, "Estado invalido", order_id, FALSE, None)]
            /\ UNCHANGED <<orders, clock>>
       ELSE /\ orders' = update_order_status(orders, order_id, status, notes, clock)
            /\ clock' = clock + 1
            /\ resp' = [resp EXCEPT ![p] =
                   IF RowsEq(orders, "id", order_id) = {}
                   THEN Reply(404, "Pedido no encontrado", order_id, FALSE, None)
                   ELSE Reply(200, "ok", order_id, FALSE, None)]
    /\ UNCHANGED <<confVars, customers, whatsapp_logs, pc, wa_calls, overlapped, phoneVars>>

\* resend_whatsapp answering at once for an order already marked as sent
ResendStart_SkipSent(p, order_id) ==
    /\ FreeSlot(p)
    /\ Budget(1)
    /\ at_start' = [at_start EXCEPT ![p] = Snapshot]
    /\ LET found == RowsEq(orders, "id", order_id)
       IN  IF found = {}
           THEN /\ resp' = [resp EXCEPT ![p] =
                       Reply(404, "Pedido no encontrado", order_id, FALSE, None)]
                /\ local' = [local EXCEPT ![p] =
                       [NoLocal EXCEPT !.kind = "resend", !.order_id = order_id]]
                /\ pc' = pc
           ELSE IF ~Truthy(orders[Min(found)].customer_phone)
           THEN /\ resp' = [resp EXCEPT ![p] =
                       Reply(400, "Este pedido no tiene telefono registrado", order_id, FALSE, None)]
                /\ local' = [local EXCEPT ![p] =
                       [NoLocal EXCEPT !.kind = "resend", !.order_id = order_id]]
                /\ pc' = pc
           ELSE IF orders[Min(found)].whatsapp_sent
           THEN /\ resp' = [resp EXCEPT ![p] =
                       Reply(200, "WhatsApp reenviado correctamente", order_id, TRUE, None)]
                /\ local' = [local EXCEPT ![p] =
                       [NoLocal EXCEPT !.kind = "resend", !.order_id = order_id]]
                /\ pc' = pc
           ELSE /\ resp' = [resp EXCEPT ![p] = NoResp]
                /\ local' = [local EXCEPT ![p] =
                       [NoLocal EXCEPT !.kind = "resend", !.order_id = order_id,
                                       !.customer_phone = orders[Min(found)].customer_phone]]
                /\ pc' = [pc EXCEPT ![p] = "notify"]
    /\ UNCHANGED <<confVars, storeVars, clock, wa_calls, overlapped, phoneVars>>

\* POST /orders/{order_id}/resend-whatsapp, up to the phone check (index.py:249-258)
ResendStart(p, order_id) ==
    /\ FreeSlot(p)
    /\ Budget(1)
    /\ at_start' = [at_start EXCEPT ![p] = Snapshot]
    /\ LET found == RowsEq(orders, "id", order_id)
       IN  IF found = {}
           THEN /\ resp' = [resp EXCEPT ![p] =
                       Reply(404, "Pedido no encontrado", order_id, FALSE, None)]
                /\ local' = [local EXCEPT ![p] =
                       [NoLocal EXCEPT !.kind = "resend", !.order_id = order_id]]
                /\ pc' = pc
           ELSE IF ~Truthy(orders[Min(found)].customer_phone)
           THEN /\ resp' = [resp EXCEPT ![p] =
                       Reply(400, "Este pedido no tiene telefono registrado", order_id, FALSE, None)]
                /\ local' = [local EXCEPT ![p] =
                       [NoLocal EXCEPT !.kind = "resend", !.order_id = order_id]]
                /\ pc' = pc
           ELSE /\ resp' = [resp EXCEPT ![p] = NoResp]
                /\ local' = [local EXCEPT ![p] =
                       [NoLocal EXCEPT !.kind = "resend", !.order_id = order_id,
                                       !.customer_phone = orders[Min(found)].customer_phone]]
                /\ pc' = [pc EXCEPT ![p] = "notify"]
    /\ UNCHANGED <<confVars, storeVars, clock, wa_calls, overlapped, phoneVars>>

\* index.py:260-266
ResendSend(p, outcome) ==
    /\ pc[p] = "notify"
    /\ local[p].kind = "resend"
    /\ LET s == send_order_confirmation(local[p].customer_phone, outcome)
       IN  /\ local' = [local EXCEPT ![p].result = s.result]
           /\ wa_calls' = Append(wa_calls,
                  [order_id |-> local[p].order_id, kind |-> "resend",
                   http |-> s.http, success |-> s.result.success,
                        phone |-> local[p].customer_phone, posts |-> s.posts,
                        result |-> s.result])
    /\ pc' = [pc EXCEPT ![p] = "mark"]
    /\ UNCHANGED <<confVars, storeVars, clock, resp, at_start, overlapped, phoneVars>>

\* resend_whatsapp answering 200 whatever the result
ResendMark_Always200(p) ==
    /\ pc[p] = "mark"
    /\ local[p].kind = "resend"
    /\ LET l == local[p]
       IN  /\ orders' = mark_order(orders, l.order_id, l.result.success, clock)
           /\ whatsapp_logs' = append_log(whatsapp_logs, l.order_id, l.result.success,
                                          l.result.message_id, l.result.error, clock)
           /\ resp' = [resp EXCEPT ![p] =
                  Reply(200, "WhatsApp reenviado correctamente", l.order_id, TRUE, None)]
    /\ clock' = clock + 1
    /\ pc' = [pc EXCEPT ![p] = "idle"]
    /\ UNCHANGED <<confVars, customers, local, wa_calls, at_start, overlapped, phoneVars>>

\* index.py:268-278
ResendMark(p) ==
    /\ pc[p] = "mark"
    /\ local[p].kind = "resend"
    /\ LET l == local[p]
       IN  /\ orders' = mark_order(orders, l.order_id, l.result.success, clock)
           /\ whatsapp_logs' = append_log(whatsapp_logs, l.order_id, l.result.success,
                                          l.result.message_id, l.result.error, clock)
           /\ resp' = [resp EXCEPT ![p] =
                  IF l.result.success
                  THEN Reply(200, "WhatsApp reenviado correctamente", l.order_id, TRUE, None)
                  ELSE Reply(502, "Error al enviar WhatsApp", l.order_id, FALSE, l.result.error)]
    /\ clock' = clock + 1
    /\ pc' = [pc EXCEPT ![p] = "idle"]
    /\ UNCHANGED <<confVars, customers, local, wa_calls, at_start, overlapped, phoneVars>>

\* GET /orders/{order_id} (index.py:225-231)
GetOrder(p, order_id) ==
    /\ FreeSlot(p)
    /\ at_start' = [at_start EXCEPT ![p] = Snapshot]
    /\ local' = [local EXCEPT ![p] = [NoLocal EXCEPT !.kind = "get", !.order_id = order_id]]
    /\ resp' = [resp EXCEPT ![p] =
           IF RowsEq(orders, "id", order_id) = {}
           THEN Reply(404, "Pedido no encontrado", order_id, FALSE, None)
           ELSE Reply(200, "ok", order_id, orders[order_id].whatsapp_sent, None)]
    /\ UNCHANGED <<confVars, storeVars, clock, pc, wa_calls, overlapped, phoneVars>>

----------------------------------------------------------------------------
(* The service: requests are handled one at a time *)

NotNormalized == [done |-> FALSE, value |-> <<>>]

Idle == \A q \in Procs : pc[q] = "idle"

Init ==
    /\ WEBHOOK_SECRET \in Secrets
    /\ wa_configured \in BOOLEAN
    /\ unique_orders = FALSE
    /\ customers = <<>>
    /\ orders = <<>>
    /\ whatsapp_logs = <<>>
    /\ clock = 1
    /\ pc = [p \in Procs |-> "idle"]
    /\ local = [p \in Procs |-> NoLocal]
    /\ resp = [p \in Procs |-> NoResp]
    /\ wa_calls = <<>>
    /\ at_start = [p \in Procs |-> Snapshot]
    /\ overlapped = FALSE
    /\ phone_edits = 0
    /\ phone_in = <<>>
    /\ phone_out = NotNormalized

Next ==
    \/ \E p \in Procs, payload \in Payloads, tok \in Tokens :
           Idle /\ IngestStart(p, payload, tok)
    \/ \E p \in Procs : IngestCustomer(p)
    \/ \E p \in Procs : IngestFindOrder(p)
    \/ \E p \in Procs : IngestInsertOrder(p)
    \/ \E p \in Procs, outcome \in ProviderOutcomes : IngestNotify(p, outcome)
    \/ \E p \in Procs : IngestMark(p)
    \/ \E p \in Procs, id \in OrderIds, st \in StatusInputs, notes \in NotesInputs :
           Idle /\ UpdateStatus(p, id, st, notes)
    \/ \E p \in Procs, id \in OrderIds : Idle /\ ResendStart(p, id)
    \/ \E p \in Procs, outcome \in ProviderOutcomes : ResendSend(p, outcome)
    \/ \E p \in Procs : ResendMark(p)
    \/ \E p \in Procs, id \in OrderIds : Idle /\ GetOrder(p, id)

Spec == Init /\ [][Next]_vars

----------------------------------------------------------------------------
(* Overlapping ingestions: several workers of the service take webhook       *)
(* requests for one external order id at the same time, against a store with *)
(* or without the uniqueness constraint                                       *)

RacePayloads == {pl \in Payloads : pl.shopify_order_id = "1001"}

RaceInit ==
    /\ WEBHOOK_SECRET = ""
    /\ wa_configured = TRUE
    /\ unique_orders \in BOOLEAN
    /\ customers = <<>>
    /\ orders = <<>>
    /\ whatsapp_logs = <<>>
    /\ clock = 1
    /\ pc = [p \in Procs |-> "idle"]
    /\ local = [p \in Procs |-> NoLocal]
    /\ resp = [p \in Procs |-> NoResp]
    /\ wa_calls = <<>>
    /\ at_start = [p \in Procs |-> Snapshot]
    /\ overlapped = FALSE
    /\ phone_edits = 0
    /\ phone_in = <<>>
    /\ phone_out = NotNormalized

RaceNext ==
    \/ \E p \in Procs, payload \in RacePayloads : IngestStart(p, payload, None)
    \/ \E p \in Procs : IngestCustomer(p)
    \/ \E p \in Procs : IngestFindOrder(p)
    \/ \E p \in Procs : IngestInsertOrder(p)
    \/ \E p \in Procs, outcome \in ProviderOutcomes : IngestNotify(p, outcome)
    \/ \E p \in Procs : IngestMark(p)

RaceSpec == RaceInit /\ [][RaceNext]_vars

----------------------------------------------------------------------------
(* normalize_phone on its own: a seed string, a few characters typed before  *)
(* or after it, then the call                                                *)

PhoneSeeds ==
    { <<>>,
      <<"3","0","0","1","2","3","4","5","6">>,
      <<"+","5","7"," ","3","0","0","-","1","2","3","-","4","5","6">>,
      <<"+","1","-","5","5","5","-","1","2","3","-","4","5","6">> }

PhoneAlphabet == {"+", "7", "0", " "}

PhoneInit ==
    /\ WEBHOOK_SECRET = ""
    /\ wa_configured = TRUE
    /\ unique_orders = FALSE
    /\ customers = <<>>
    /\ orders = <<>>
    /\ whatsapp_logs = <<>>
    /\ clock = 1
    /\ pc = [p \in Procs |-> "idle"]
    /\ local = [p \in Procs |-> NoLocal]
    /\ resp = [p \in Procs |-> NoResp]
    /\ wa_calls = <<>>
    /\ at_start = [p \in Procs |-> Snapshot]
    /\ overlapped = FALSE
    /\ phone_edits = 0
    /\ phone_in \in PhoneSeeds
    /\ phone_out = NotNormalized

mainVars == <<confVars, storeVars, clock, pc, local, resp, wa_calls, at_start, overlapped>>

PhoneAppend(c) ==
    /\ ~phone_out.done
    /\ phone_edits < MaxEdits
    /\ phone_in' = Append(phone_in, c)
    /\ phone_edits' = phone_edits + 1
    /\ UNCHANGED <<mainVars, phone_out>>

PhonePrepend(c) ==
    /\ ~phone_out.done
    /\ phone_edits < MaxEdits
    /\ phone_in' = <<c>> \o phone_in
    /\ phone_edits' = phone_edits + 1
    /\ UNCHANGED <<mainVars, phone_out>>

PhoneNormalize ==
    /\ ~phone_out.done
    /\ phone_out' = [done |-> TRUE, value |-> normalize_phone(phone_in)]
    /\ UNCHANGED <<mainVars, phone_in, phone_edits>>

PhoneNext ==
    \/ \E c \in PhoneAlphabet : PhoneAppend(c)
    \/ \E c \in PhoneAlphabet : PhonePrepend(c)
    \/ PhoneNormalize

PhoneSpec == PhoneInit /\ [][PhoneNext]_vars

----------------------------------------------------------------------------
(* Properties *)

Last(seq) == seq[Len(seq)]

IsPrefix(a, b) == Len(a) <= Len(b) /\ SubSeq(b, 1, Len(a)) = a

\* the handler of p is handling, or has last handled, an admitted ingestion
Ingesting(p) == local[p].kind = "ingest" /\ local[p].payload # NoPayload

\* the order rows that carried this external id when p's request arrived
RowsBefore(p) ==
    RowsEq(at_start[p].orders, "shopify_order_id", local[p].payload.shopify_order_id)

\* C1: an ingestion whose external order id already had a row when it arrived
\* leaves the orders table as it was, with exactly one row for that id, makes
\* no provider call, writes no log row, and answers 200 "already existed"
\* with whatsapp_sent = false.
C1_Idempotent ==
    \A p \in Procs :
        (Ingesting(p) /\ RowsBefore(p) # {}) =>
            /\ orders = at_start[p].orders
            /\ Cardinality(RowsEq(orders, "shopify_order_id",
                                  local[p].payload.shopify_order_id)) = 1
            /\ wa_calls = at_start[p].wa_calls
            /\ whatsapp_logs = at_start[p].whatsapp_logs
            /\ pc[p] \in {"upsert_customer", "upsert_order", "idle"}
            /\ pc[p] = "idle" =>
                   resp[p] = Reply(200, "Pedido ya existente, sin cambios",
                                   orders[Min(RowsBefore(p))].id, FALSE, None)

\* a repeated ingestion has been answered, and its payload differed from the row
C1_Witness ==
    \E p \in Procs :
        /\ Ingesting(p) /\ RowsBefore(p) # {} /\ pc[p] = "idle"
        /\ orders[Min(RowsBefore(p))].total_price # local[p].payload.total_price
        /\ orders[Min(RowsBefore(p))].customer_phone # customer_phone_of(local[p].payload)

\* C2: whenever send_order_confirmation has been invoked for an order, and
\* whenever an ingestion is at or past its notification step, the order's row
\* is in the store; no later step removes it.
C2_OrderBeforeNotification ==
    /\ \A i \in DOMAIN wa_calls : RowsEq(orders, "id", wa_calls[i].order_id) # {}
    /\ \A p \in Procs :
           (local[p].kind = "ingest" /\ pc[p] \in {"notify", "mark"}) =>
               \E i \in DOMAIN orders :
                   /\ orders[i].id = local[p].order_id
                   /\ orders[i].shopify_order_id = local[p].payload.shopify_order_id

\* the provider call of an ingestion has just failed
C2_Witness ==
    \E p \in Procs :
        /\ local[p].kind = "ingest" /\ pc[p] = "mark"
        /\ wa_calls # <<>> /\ Last(wa_calls).http /\ ~Last(wa_calls).success
        /\ Last(wa_calls).order_id = local[p].order_id

\* C3: an ingestion of a new order whose customer phone and shipping phone are
\* both None or "" never invokes send_order_confirmation, and ends with one new
\* log row success = false, error "Sin telefono", the order's whatsapp_sent false.
C3_NoPhoneNoProvider ==
    \A p \in Procs :
        (/\ Ingesting(p) /\ RowsBefore(p) = {}
         /\ ~Truthy(local[p].payload.customer.phone)
         /\ ~Truthy(local[p].payload.shipping_address.phone)) =>
            /\ wa_calls = at_start[p].wa_calls
            /\ pc[p] = "idle" =>
                /\ Len(whatsapp_logs) = Len(at_start[p].whatsapp_logs) + 1
                /\ IsPrefix(at_start[p].whatsapp_logs, whatsapp_logs)
                /\ Last(whatsapp_logs).order_id = local[p].order_id
                /\ Last(whatsapp_logs).success = FALSE
                /\ Last(whatsapp_logs).error_message = "Sin telefono"
                /\ Last(whatsapp_logs).message_id = None
                /\ orders[local[p].order_id].shopify_order_id = local[p].payload.shopify_order_id
                /\ orders[local[p].order_id].whatsapp_sent = FALSE
                /\ resp[p].code = 200 /\ resp[p].whatsapp_sent = FALSE
                /\ resp[p].whatsapp_error = "Sin telefono"

\* a new order with two empty phones has been ingested
C3_Witness ==
    \E p \in Procs :
        /\ Ingesting(p) /\ RowsBefore(p) = {} /\ pc[p] = "idle"
        /\ local[p].payload.customer.phone = ""
        /\ local[p].payload.shipping_address.phone = ""
        /\ Len(whatsapp_logs) > Len(at_start[p].whatsapp_logs)

\* the order a resend names, as it was when the request arrived
ResendRows(p) == RowsEq(at_start[p].orders, "id", local[p].order_id)

\* p has answered a resend for an existing order with a phone on file
ResendDone(p) ==
    /\ local[p].kind = "resend" /\ pc[p] = "idle"
    /\ ResendRows(p) # {}
    /\ Truthy(at_start[p].orders[Min(ResendRows(p))].customer_phone)

\* C4 as stated: such a resend has made an outbound provider call and appended
\* exactly one log row for the order.
C4_AlwaysProviderCall ==
    \A p \in Procs :
        ResendDone(p) =>
            /\ Len(wa_calls) = Len(at_start[p].wa_calls) + 1
            /\ Last(wa_calls).http
            /\ Len(whatsapp_logs) = Len(at_start[p].whatsapp_logs) + 1
            /\ Last(whatsapp_logs).order_id = local[p].order_id

\* C4 amended: such a resend has invoked send_order_confirmation exactly once,
\* whatever the order's whatsapp_sent was, and that invocation made the outbound
\* call exactly when the credentials are configured and the normalized phone has
\* at least 10 characters; exactly one log row for the order was appended, with
\* the invocation's success value.
C4_ResendAlwaysSendsAndLogs ==
    \A p \in Procs :
        ResendDone(p) =>
            /\ Len(wa_calls) = Len(at_start[p].wa_calls) + 1
            /\ IsPrefix(at_start[p].wa_calls, wa_calls)
            /\ Last(wa_calls).order_id = local[p].order_id
            /\ Last(wa_calls).kind = "resend"
            /\ Last(wa_calls).http =
                   (/\ wa_configured
                    /\ Len(normalize_phone(Chars(
                           at_start[p].orders[Min(ResendRows(p))].customer_phone))) >= 10)
            /\ Len(whatsapp_logs) = Len(at_start[p].whatsapp_logs) + 1
            /\ IsPrefix(at_start[p].whatsapp_logs, whatsapp_logs)
            /\ Last(whatsapp_logs).order_id = local[p].order_id
            /\ Last(whatsapp_logs).success = Last(wa_calls).success

\* a resend of an order already marked as sent has failed
C4_Witness ==
    \E p \in Procs :
        /\ ResendDone(p)
        /\ at_start[p].orders[Min(ResendRows(p))].whatsapp_sent
        /\ ~Last(whatsapp_logs).success

\* C5: a status update whose status is outside the enum is answered 400 and
\* leaves every table as it was.
C5_InvalidStatusRejected ==
    \A p \in Procs :
        (/\ local[p].kind = "status"
         /\ local[p].status \notin {"nuevo", "en_proceso", "enviado", "completado", "cancelado"}) =>
            /\ resp[p].code = 400
            /\ orders = at_start[p].orders
            /\ customers = at_start[p].customers
            /\ whatsapp_logs = at_start[p].whatsapp_logs

\* an invalid status was sent for an order that exists
C5_Witness ==
    \E p \in Procs :
        /\ local[p].kind = "status" /\ local[p].status = "shipped"
        /\ RowsEq(orders, "id", local[p].order_id) # {}

\* C6: every step leaves the rows already in whatsapp_logs in place and unchanged.
C6_LogsAppendOnly == [][IsPrefix(whatsapp_logs, whatsapp_logs')]_vars

\* two log rows exist for one order and a status update has gone through
C6_Witness ==
    \E p \in Procs :
        /\ local[p].kind = "status" /\ resp[p].code = 200
        /\ Len(whatsapp_logs) >= 2
        /\ whatsapp_logs[1].order_id = whatsapp_logs[2].order_id

\* nothing in the store or in the call history changed since p's request arrived
Untouched(p) ==
    /\ customers = at_start[p].customers
    /\ orders = at_start[p].orders
    /\ whatsapp_logs = at_start[p].whatsapp_logs
    /\ wa_calls = at_start[p].wa_calls

\* C7: an answered resend is 404 for an unknown order and 400 for an order
\* without phone, both with nothing written and no invocation; otherwise it is
\* 200 when the send succeeded and 502 when it failed, the attempt logged.
C7_ResendOutcomes ==
    \A p \in Procs :
        (local[p].kind = "resend" /\ pc[p] = "idle") =>
            /\ ResendRows(p) = {} => (resp[p].code = 404 /\ Untouched(p))
            /\ (/\ ResendRows(p) # {}
                /\ ~Truthy(at_start[p].orders[Min(ResendRows(p))].customer_phone)) =>
                   (resp[p].code = 400 /\ Untouched(p))
            /\ ResendDone(p) =>
                /\ resp[p].code = IF Last(wa_calls).success THEN 200 ELSE 502
                /\ Len(whatsapp_logs) = Len(at_start[p].whatsapp_logs) + 1
                /\ Last(whatsapp_logs).order_id = local[p].order_id
                /\ Last(whatsapp_logs).success = Last(wa_calls).success
            /\ resp[p].code = 200 => (ResendDone(p) /\ Last(wa_calls).success)

\* a resend reached the provider, failed, and was answered 502
C7_Witness ==
    \E p \in Procs :
        /\ ResendDone(p) /\ resp[p].code = 502
        /\ Last(wa_calls).http /\ ~Last(whatsapp_logs).success

\* C8: with a secret configured, a webhook request whose token is missing or
\* different is answered 401 with nothing written and no invocation; with no
\* secret configured, or with the right token, the request is never answered 401.
C8_WebhookAuth ==
    \A p \in Procs :
        local[p].kind = "ingest" =>
            /\ (WEBHOOK_SECRET # "" /\ local[p].token # WEBHOOK_SECRET) =>
                   (resp[p].code = 401 /\ pc[p] = "idle" /\ Untouched(p)
                    /\ local[p].payload = NoPayload)
            /\ (WEBHOOK_SECRET = "" \/ local[p].token = WEBHOOK_SECRET) =>
                   (resp[p].code # 401 /\ local[p].payload # NoPayload)

\* a request without token was refused while the store already held an order
C8_Witness ==
    \E p \in Procs :
        /\ local[p].kind = "ingest" /\ WEBHOOK_SECRET # ""
        /\ local[p].token = None /\ resp[p].code = 401
        /\ orders # <<>>

\* the digits of a string, in order
DigitsOf(s) == FilterChars(s, Digits)

\* C9 as stated: the result of normalize_phone has only digits, no leading
\* zero, and is the digits of the input, with "57" in front exactly when
\* those digits are 10 long and start with "3".
C9_NormalizedDigitsOnly ==
    phone_out.done =>
        /\ \A i \in DOMAIN phone_out.value : phone_out.value[i] \in Digits
        /\ phone_out.value # <<>> => phone_out.value[1] # "0"
        /\ phone_out.value =
               IF Len(DigitsOf(phone_in)) = 10 /\ DigitsOf(phone_in)[1] = "3"
               THEN <<"5", "7">> \o DigitsOf(phone_in)
               ELSE DigitsOf(phone_in)

\* C10: no two customer rows share an email that is not null, and an ingestion
\* whose email already had a row patched it (name, and phone when given)
\* without adding a row.
C10_CustomerUnique ==
    /\ \A i, j \in DOMAIN customers :
           (customers[i].email # None /\ customers[i].email = customers[j].email) => i = j
    /\ \A p \in Procs :
           (/\ Ingesting(p) /\ pc[p] = "upsert_order"
            /\ Truthy(local[p].customer_email)
            /\ RowsEq(at_start[p].customers, "email", local[p].customer_email) # {}) =>
               LET i == Min(RowsEq(at_start[p].customers, "email", local[p].customer_email))
               IN  /\ Len(customers) = Len(at_start[p].customers)
                   /\ local[p].customer_id = customers[i].id
                   /\ customers[i].name = local[p].customer_name
                   /\ customers[i].phone =
                          IF Truthy(local[p].customer_phone)
                          THEN local[p].customer_phone
                          ELSE at_start[p].customers[i].phone

\* an ingestion found its email on file and changed the name of that row
C10_Witness ==
    \E p \in Procs :
        /\ Ingesting(p) /\ pc[p] = "upsert_order"
        /\ Truthy(local[p].customer_email)
        /\ \E i \in DOMAIN at_start[p].customers :
               /\ at_start[p].customers[i].email = local[p].customer_email
               /\ at_start[p].customers[i].name # customers[i].name

\* the order rows with this external id
RowsOf(sid) == RowsEq(orders, "shopify_order_id", sid)

\* C11: two order rows for one external id exist only in a store without the
\* uniqueness constraint and only after two ingestions overlapped; with the
\* constraint there is never more than one row for an id.
C11_DuplicateOnlyByRace ==
    \A sid \in ShopifyIds :
        /\ Cardinality(RowsOf(sid)) >= 2 => (~unique_orders /\ overlapped)
        /\ unique_orders => Cardinality(RowsOf(sid)) <= 1

\* without the constraint both overlapping ingestions inserted, called the
\* provider and logged: two rows, two provider calls, two log rows for one id
C11_Witness ==
    /\ ~unique_orders
    /\ \A p \in Procs : pc[p] = "idle" /\ Ingesting(p)
    /\ Cardinality(RowsOf("1001")) = 2
    /\ Len(wa_calls) = 2 /\ wa_calls[1].http /\ wa_calls[2].http
    /\ wa_calls[1].order_id # wa_calls[2].order_id
    /\ Len(whatsapp_logs) = 2
    /\ whatsapp_logs[1].order_id # whatsapp_logs[2].order_id

\* p has answered the ingestion of an order that had no row when it arrived
NewIngestDone(p) ==
    /\ Ingesting(p) /\ RowsBefore(p) = {}
    /\ pc[p] = "idle" /\ resp[p].code = 200

\* a log row written for a send_order_confirmation invocation
IsCallLog(row) == row.error_message # "Sin telefono"

\* handlers that have invoked send_order_confirmation and not yet recorded it
PendingCalls ==
    {p \in Procs : pc[p] = "mark" /\ (local[p].kind = "resend" \/ Truthy(local[p].customer_phone))}

\* C12: an answered ingestion of a new order has made exactly one
\* mark_whatsapp_sent call, one patch of its order row and one log row with the
\* notification result, whether sent, skipped or failed; and the invocations of
\* send_order_confirmation correspond one to one, in order, to the log rows
\* written for invocations, apart from the invocation being recorded.
C12_OutcomeRecorded ==
    /\ \A p \in Procs :
           NewIngestDone(p) =>
               /\ Len(whatsapp_logs) = Len(at_start[p].whatsapp_logs) + 1
               /\ IsPrefix(at_start[p].whatsapp_logs, whatsapp_logs)
               /\ Last(whatsapp_logs).order_id = local[p].order_id
               /\ Last(whatsapp_logs).success = local[p].result.success
               /\ Last(whatsapp_logs).message_id = local[p].result.message_id
               /\ Last(whatsapp_logs).error_message = local[p].result.error
               /\ orders[local[p].order_id].whatsapp_sent = local[p].result.success
               /\ orders[local[p].order_id].updated_at = Last(whatsapp_logs).sent_at
               /\ orders[local[p].order_id].updated_at = orders[local[p].order_id].created_at + 1
               /\ resp[p].whatsapp_sent = local[p].result.success
    /\ LET callLogs == SelectSeq(whatsapp_logs, IsCallLog)
       IN  /\ Len(wa_calls) = Len(callLogs) + Cardinality(PendingCalls)
           /\ \A i \in DOMAIN callLogs :
                  /\ callLogs[i].order_id = wa_calls[i].order_id
                  /\ callLogs[i].success = wa_calls[i].success

\* a new order's notification reached the provider and failed, and the
\* ingestion has been answered with the failure logged
C12_Witness ==
    \E p \in Procs :
        /\ NewIngestDone(p)
        /\ Len(wa_calls) = Len(at_start[p].wa_calls) + 1
        /\ Last(wa_calls).http /\ ~local[p].result.success
        /\ Last(whatsapp_logs).error_message = local[p].result.error

\* the fields of an order row that are written at creation only
SameCreationFields(a, b) ==
    /\ a.id = b.id
    /\ a.shopify_order_id = b.shopify_order_id
    /\ a.order_number = b.order_number
    /\ a.customer_id = b.customer_id
    /\ a.customer_name = b.customer_name
    /\ a.customer_email = b.customer_email
    /\ a.customer_phone = b.customer_phone
    /\ a.total_price = b.total_price
    /\ a.created_at = b.created_at

\* this step is a status update of row i answered with 200
StatusStep(i) ==
    /\ pc' = pc
    /\ \E p \in Procs :
           /\ FreeSlot(p)
           /\ local'[p].kind = "status"
           /\ local'[p].order_id = orders[i].id
           /\ local'[p].status = orders'[i].status
           /\ resp'[p].code = 200

\* this step is a handler recording its notification result on row i
MarkStep(i) ==
    \E p \in Procs :
        /\ pc[p] = "mark" /\ pc'[p] = "idle"
        /\ local[p].order_id = orders[i].id
        /\ orders'[i].whatsapp_sent = local[p].result.success

\* C13 as stated: an existing order row keeps every field but status,
\* whatsapp_sent, whatsapp_sent_at and updated_at, notes included; status
\* changes only in a status update, the two notification fields only when a
\* notification result is recorded, and neither step touches the other's fields.
C13_NotesNeverChange ==
    [][\A i \in DOMAIN orders :
           /\ i \in DOMAIN orders'
           /\ SameCreationFields(orders[i], orders'[i])
           /\ orders'[i].notes = orders[i].notes
           /\ orders'[i] # orders[i] => (StatusStep(i) \/ MarkStep(i))
           /\ orders'[i].status # orders[i].status => StatusStep(i)
           /\ StatusStep(i) =>
                  /\ orders'[i].whatsapp_sent = orders[i].whatsapp_sent
                  /\ orders'[i].whatsapp_sent_at = orders[i].whatsapp_sent_at
           /\ (\/ orders'[i].whatsapp_sent # orders[i].whatsapp_sent
               \/ orders'[i].whatsapp_sent_at # orders[i].whatsapp_sent_at) => MarkStep(i)
           /\ MarkStep(i) => orders'[i].status = orders[i].status]_vars

\* C13 amended: an existing order row keeps the fields written at creation;
\* status and notes change only in a status update answered with 200, which
\* leaves the notification fields alone; whatsapp_sent and whatsapp_sent_at
\* change only when a notification result is recorded, which leaves status and
\* notes alone; no other step changes the row.
C13_FrameWithNotes ==
    [][\A i \in DOMAIN orders :
           /\ i \in DOMAIN orders'
           /\ SameCreationFields(orders[i], orders'[i])
           /\ orders'[i] # orders[i] => (StatusStep(i) \/ MarkStep(i))
           /\ (\/ orders'[i].status # orders[i].status
               \/ orders'[i].notes # orders[i].notes) => StatusStep(i)
           /\ StatusStep(i) =>
                  /\ orders'[i].whatsapp_sent = orders[i].whatsapp_sent
                  /\ orders'[i].whatsapp_sent_at = orders[i].whatsapp_sent_at
           /\ (\/ orders'[i].whatsapp_sent # orders[i].whatsapp_sent
               \/ orders'[i].whatsapp_sent_at # orders[i].whatsapp_sent_at) => MarkStep(i)
           /\ MarkStep(i) =>
                  /\ orders'[i].status = orders[i].status
                  /\ orders'[i].notes = orders[i].notes]_vars

\* a status update with notes has been answered for an order whose
\* notification had been sent: status and notes changed, the flag did not
C13_Witness ==
    \E p \in Procs :
        /\ local[p].kind = "status" /\ pc[p] = "idle" /\ resp[p].code = 200
        /\ local[p].order_id \in DOMAIN at_start[p].orders
        /\ LET old == at_start[p].orders[local[p].order_id]
               new == orders[local[p].order_id]
           IN  /\ old.whatsapp_sent /\ new.whatsapp_sent
               /\ old.status = "nuevo" /\ new.status = "enviado"
               /\ old.notes = None /\ new.notes = "llamar"
               /\ new.whatsapp_sent_at = old.whatsapp_sent_at
               /\ new.updated_at > old.updated_at

\* C14: every invocation of send_order_confirmation makes exactly one outbound
\* call when the credentials are configured and the normalized phone has at
\* least 10 characters, and none otherwise; it returns a structured result in
\* every case: success with no error, or failure with an error and no message
\* id, the failure without a call being one of the two precondition failures.
C14_OneCallNoRetry ==
    \A i \in DOMAIN wa_calls :
        LET c == wa_calls[i]
            sendable == /\ wa_configured
                        /\ Len(normalize_phone(Chars(c.phone))) >= 10
        IN  /\ c.posts = IF sendable THEN 1 ELSE 0
            /\ c.http = (c.posts = 1)
            /\ c.result.success \in BOOLEAN
            /\ c.result.success => (c.posts = 1 /\ c.result.error = None)
            /\ ~c.result.success => (c.result.error # None /\ c.result.message_id = None)
            /\ c.posts = 0 =>
                   /\ ~c.result.success
                   /\ c.result.error = IF wa_configured THEN "Numero de telefono invalido"
                                       ELSE "WhatsApp no configurado"

\* with credentials configured, one invocation was refused for its phone
\* without a call and another made its one call, which failed
C14_Witness ==
    /\ wa_configured
    /\ \E i, j \in DOMAIN wa_calls :
           /\ wa_calls[i].posts = 0 /\ ~wa_calls[i].result.success
           /\ wa_calls[j].posts = 1 /\ ~wa_calls[j].result.success
           /\ wa_calls[j].result.error \in {"HTTP 400", "timeout"}

\* the log rows of an order, oldest first
LogsOf(order_id) ==
    LET Mine(row) == row.order_id = order_id
    IN  SelectSeq(whatsapp_logs, Mine)

\* C15: when no request is in progress, the whatsapp_sent flag of every order
\* row equals the success value of the newest log row of that order, and is
\* false for an order without log rows.
C15_FlagIsLastLog ==
    Idle =>
        \A i \in DOMAIN orders :
            orders[i].whatsapp_sent =
                IF LogsOf(orders[i].id) = <<>> THEN FALSE
                ELSE Last(LogsOf(orders[i].id)).success

\* an order whose notification was sent and whose later resend failed: the
\* flag is false again although an earlier log row records a success
C15_Witness ==
    /\ Idle
    /\ \E i \in DOMAIN orders :
           /\ Len(LogsOf(orders[i].id)) >= 2
           /\ LogsOf(orders[i].id)[1].success
           /\ ~Last(LogsOf(orders[i].id)).success
           /\ ~orders[i].whatsapp_sent
           /\ orders[i].whatsapp_sent_at = LogsOf(orders[i].id)[1].sent_at

====
